---- MODULE Spec2Model ----
(***************************************************************************)
(* Model of the VirtualTechExperts pipeline:                               *)
(*   - adaptive_fetch            (src/src/layer1/query_expander.py)        *)
(*   - QueryExpander             (src/src/layer1/query_expander.py)        *)
(*   - AdvancedDebateGraph       (src/src/layer3/debate_graph.py)          *)
(*   - VectorStoreManager        (src/src/layer2/vector_store.py)          *)
(*   - the new-expert and delete flows (src/main.py)                       *)
(* Each component has its own specification (SpecFetch, SpecQuery,         *)
(* SpecDebate, SpecStore, SpecPartition, SpecPipeline); the variables of   *)
(* the other components stay unchanged.                                    *)
(***************************************************************************)
EXTENDS Integers, Sequences, FiniteSets, TLC

(***************************************************************************)
(* Bounds of the model.                                                    *)
(***************************************************************************)
MaxLimit == 4        \* adaptive_fetch: limit ranges over 0..MaxLimit
MaxQueries == 3      \* adaptive_fetch: number of queries, 0..MaxQueries
MaxResults == 2      \* adaptive_fetch: length of one fetch_fn result list
MaxTurns == 3        \* debate: max_turns_per_persona and --turn range up to MaxTurns

MaxDocs == 3         \* vector store: number of stored documents

\* Cap on the transcript length, above every length a run can reach
\* (2 * MaxTurns + 1); it keeps the state space finite, see CapNotReached.
MaxMessages == 2 * MaxTurns + 4

(***************************************************************************)
(* Python values.  None and the empty string are both falsy; a missing     *)
(* dict key read with .get() yields None.                                  *)
(***************************************************************************)
None == "None"

Truthy(v) == v \notin {None, ""}

\* Python's `a or b`: a when a is truthy, else b.
Or(a, b) == IF Truthy(a) THEN a ELSE b

Min(a, b) == IF a <= b THEN a ELSE b

\* Python's seq[:n] for n >= 0.
Take(s, n) == SubSeq(s, 1, Min(n, Len(s)))

(***************************************************************************)
(* adaptive_fetch: the raw records a source can return.  A record is a     *)
(* dict with optional id / url / publication_number, or a non-dict value;  *)
(* repr is str(item).                                                      *)
(***************************************************************************)
DictItem(id, url, pn, repr) ==
    [kind |-> "dict", id |-> id, url |-> url, publication_number |-> pn, repr |-> repr]

StrItem(s) ==
    [kind |-> "str", id |-> None, url |-> None, publication_number |-> None, repr |-> s]

Items ==
    { DictItem("a", None, None, "{id:a}"),
      DictItem("", "a", "b", "{id:,url:a,pn:b}"),
      DictItem(None, None, "b", "{pn:b}"),
      DictItem(None, None, None, "{title:x}"),
      StrItem("b") }

\* The lists fetch_fn can return: every sequence of at most MaxResults items.
ResultLists == UNION { [1..n -> Items] : n \in 0..MaxResults }

\* query_expander.py:360-364, the dedup key of one item.
UniqueId(item) ==
    IF item.kind = "dict"
    THEN Or(item.id, Or(item.url, Or(item.publication_number, item.repr)))
    ELSE item.repr

VARIABLES
    f_pc,          \* "idle" | "loop" | "return" | "done"
    limit,         \* argument limit
    nqueries,      \* len(queries)
    qidx,          \* loop index i of `for i, query in enumerate(queries)`
    all_results,   \* all_results
    seen_ids,      \* seen_ids
    fetch_calls,   \* indices of the queries client_fetch_func was called with
    outcomes,      \* per processed query: new_count, or -1 when the call raised
    fetched,       \* the returned list (empty until f_pc = "done")
    dup_same,      \* history: an item repeated a key of its own result list
    dup_cross      \* history: an item repeated a key of an earlier query

fetchVars == <<f_pc, limit, nqueries, qidx, all_results, seen_ids,
               fetch_calls, outcomes, fetched, dup_same, dup_cross>>

VARIABLES
    d_pc,          \* "idle" | the node about to run | "END" | "done" | "raised"
    cfg_max_turns, \* debate_rules.max_turns_per_persona of config.yaml (3 if absent)
    max_turns,     \* self.max_turns
    run_turns,     \* the turns argument of the latest run(): << >> is None
    graph,         \* the compiled graph of the current run: "a" | "b" | "c"
    state,         \* the DebateState inside app.invoke
    final_state    \* what run() returned to its caller: << >> or <<state>>

debateVars == <<d_pc, cfg_max_turns, max_turns, run_turns, graph, state, final_state>>

VARIABLES
    store,         \* the Chroma collection: the stored documents' metadata, in order
    last_op,       \* the VectorStoreManager method that ran last
    generated,     \* what it returned when it was generate_next_expert_id, else ""
    scan_ok        \* whether vector_store.get returned inside that call's list_experts

storeVars == <<store, generated, scan_ok, last_op>>

\* What the caller of one partition operation passed and got back.
VARIABLES
    op_id,         \* the expert_id argument of the last partition operation
    op_k,          \* the k of the last retrieval, else 0
    op_result,     \* "none" (returned None) | "true" | "false" | "raised"
    store_raised,  \* whether the Chroma collection raised inside the operation
    added,         \* the positions in store of the documents the last add stored
    hits           \* the positions in store of the documents the last retrieval returned

partitionVars == <<op_id, op_k, op_result, store_raised, added, hits>>

\* The state of one generate_search_queries call.
VARIABLES
    q_pc,           \* "idle" | "expand" | "extract" | "synonyms" | "rank" | "return" | "done"
    q_topic,        \* argument topic
    queries,        \* queries
    query_kinds,    \* per query, the strategy that appended it
    keywords,       \* keywords
    llm_calls,      \* the model calls made so far and what each did, in order
    search_queries  \* the returned list (empty until q_pc = "done")

queryVars == <<q_pc, q_topic, queries, query_kinds, keywords, llm_calls, search_queries>>

\* The new-expert runs of main.py that share one collection.
VARIABLES
    p_pc,          \* per run: "idle" | "acquire" (an id is assigned, nothing stored yet)
    p_id,          \* per run: expert_id, << >> while the run is idle
    created_max    \* history: the largest number of an id a run has stored a partition under

pipelineVars == <<p_pc, p_id, created_max>>

vars == <<fetchVars, debateVars, storeVars, partitionVars, queryVars, pipelineVars>>

\* What the actions of one component leave alone: the other components.
fetchOthers == <<debateVars, storeVars, partitionVars, queryVars, pipelineVars>>
debateOthers == <<fetchVars, storeVars, partitionVars, queryVars, pipelineVars>>
storeOthers == <<fetchVars, debateVars, partitionVars, queryVars, pipelineVars>>
partitionOthers == <<fetchVars, debateVars, queryVars, pipelineVars>>
queryOthers == <<fetchVars, debateVars, storeVars, partitionVars, pipelineVars>>
pipelineOthers == <<fetchVars, debateVars, partitionVars, queryVars>>

(***************************************************************************)
(* adaptive_fetch, query_expander.py:331-384.                              *)
(***************************************************************************)

\* Mutant of IsNewItem: the membership test is dropped.
IsNewItemAlways(unique_id, seen) == TRUE

\* query_expander.py:366, the membership test that decides whether an item is new.
IsNewItem(unique_id, seen) == unique_id \notin seen

\* query_expander.py:358-369, the inner loop over one result list: returns the
\* extended all_results and seen_ids, and new_count.
RECURSIVE ProcessItems(_, _, _, _)
ProcessItems(results, all, seen, new_count) ==
    IF results = << >>
    THEN [all |-> all, seen |-> seen, new_count |-> new_count]
    ELSE LET item == Head(results)
             unique_id == UniqueId(item)
         IN  IF IsNewItem(unique_id, seen)
             THEN ProcessItems(Tail(results), Append(all, item),
                               seen \cup {unique_id}, new_count + 1)
             ELSE ProcessItems(Tail(results), all, seen, new_count)

\* Mutant of EarlyStopFirst: the rule is applied after every query.
EarlyStopFirstAnyIndex(i, new_count, lim) == 2 * new_count >= lim

\* Mutant of EarlyStopFirst: > instead of >=.
EarlyStopFirstStrict(i, new_count, lim) == i = 0 /\ 2 * new_count > lim

\* Mutant of EarlyStopFirst: half of limit rounded down (limit // 2).
EarlyStopFirstFloor(i, new_count, lim) == i = 0 /\ new_count >= lim \div 2

\* query_expander.py:373, early-stop rule 1: new_count >= limit * 0.5 on the
\* first query (2 * new_count >= limit in integers).
EarlyStopFirst(i, new_count, lim) == i = 0 /\ 2 * new_count >= lim

\* query_expander.py:377, early-stop rule 2.
EarlyStopLimit(all, lim) == Len(all) >= lim

\* Mutant of Truncate: the whole list is returned.
TruncateNone(all, lim) == all

\* query_expander.py:384, the returned slice all_results[:limit].
Truncate(all, lim) == Take(all, lim)

\* The position after the body of iteration qidx when the loop goes on:
\* the next query, or the return statement when the list is exhausted.
AfterIteration == IF qidx + 1 < nqueries THEN "loop" ELSE "return"

FetchInit ==
    /\ f_pc = "idle"
    /\ limit = 0
    /\ nqueries = 0
    /\ qidx = 0
    /\ all_results = << >>
    /\ seen_ids = {}
    /\ fetch_calls = << >>
    /\ outcomes = << >>
    /\ fetched = << >>
    /\ dup_same = FALSE
    /\ dup_cross = FALSE

\* query_expander.py:331-351, a call adaptive_fetch(fetch_fn, queries, limit, name).
AdaptiveFetchCall ==
    /\ f_pc \in {"idle", "done"}
    /\ \E lim \in 0..MaxLimit, n \in 0..MaxQueries :
          /\ limit' = lim
          /\ nqueries' = n
          /\ f_pc' = IF n > 0 THEN "loop" ELSE "return"
    /\ qidx' = 0
    /\ all_results' = << >>
    /\ seen_ids' = {}
    /\ fetch_calls' = << >>
    /\ outcomes' = << >>
    /\ fetched' = << >>
    /\ dup_same' = FALSE
    /\ dup_cross' = FALSE
    /\ UNCHANGED fetchOthers

\* Mutant of IterationRaises: the exception ends the loop instead of being
\* followed by `continue`.
IterationRaisesBreaks ==
    [f_pc |-> "return", qidx |-> qidx, all_results |-> all_results, seen_ids |-> seen_ids]

\* query_expander.py:353-378, where the loop stands after an iteration in
\* which client_fetch_func returned `results`: items merged, then the two
\* early-stop rules, then the next query.
IterationReturns(results) ==
    LET r == ProcessItems(results, all_results, seen_ids, 0)
        stop == \/ EarlyStopFirst(qidx, r.new_count, limit)
                \/ EarlyStopLimit(r.all, limit)
    IN  [f_pc |-> IF stop THEN "return" ELSE AfterIteration,
         qidx |-> IF stop THEN qidx ELSE qidx + 1,
         all_results |-> r.all,
         seen_ids |-> r.seen]

\* query_expander.py:355 and 380-382, where the loop stands after an
\* iteration in which client_fetch_func raised: the except clause prints and
\* runs `continue`.
IterationRaises ==
    [f_pc |-> AfterIteration, qidx |-> qidx + 1,
     all_results |-> all_results, seen_ids |-> seen_ids]

\* query_expander.py:353-378, one iteration in which client_fetch_func returns.
FetchQueryReturns ==
    /\ f_pc = "loop"
    /\ \E results \in ResultLists :
          LET r == ProcessItems(results, all_results, seen_ids, 0)
              n == IterationReturns(results)
          IN  /\ all_results' = n.all_results
              /\ seen_ids' = n.seen_ids
              /\ outcomes' = Append(outcomes, r.new_count)
              /\ f_pc' = n.f_pc
              /\ qidx' = n.qidx
              /\ dup_same' = (dup_same \/ \E j, k \in DOMAIN results :
                                  j < k /\ UniqueId(results[j]) = UniqueId(results[k]))
              /\ dup_cross' = (dup_cross \/ \E k \in DOMAIN results :
                                  UniqueId(results[k]) \in seen_ids)
    /\ fetch_calls' = Append(fetch_calls, qidx)
    /\ UNCHANGED <<limit, nqueries, fetched>>
    /\ UNCHANGED fetchOthers

\* query_expander.py:355 and 380-382, one iteration in which client_fetch_func
\* raises: the exception is caught and the loop continues.
FetchQueryRaises ==
    /\ f_pc = "loop"
    /\ fetch_calls' = Append(fetch_calls, qidx)
    /\ outcomes' = Append(outcomes, -1)
    /\ f_pc' = IterationRaises.f_pc
    /\ qidx' = IterationRaises.qidx
    /\ all_results' = IterationRaises.all_results
    /\ seen_ids' = IterationRaises.seen_ids
    /\ UNCHANGED <<limit, nqueries, fetched, dup_same, dup_cross>>
    /\ UNCHANGED fetchOthers

\* query_expander.py:384.
AdaptiveFetchReturn ==
    /\ f_pc = "return"
    /\ fetched' = Truncate(all_results, limit)
    /\ f_pc' = "done"
    /\ UNCHANGED <<limit, nqueries, qidx, all_results, seen_ids, fetch_calls, outcomes,
                   dup_same, dup_cross>>
    /\ UNCHANGED fetchOthers

FetchNext ==
    \/ AdaptiveFetchCall
    \/ FetchQueryReturns
    \/ FetchQueryRaises
    \/ AdaptiveFetchReturn

(***************************************************************************)
(* AdvancedDebateGraph, debate_graph.py.                                   *)
(***************************************************************************)

\* The inputs of run(): topics, expert ids, mode strings (anything but 'b' and
\* 'c' builds mode A), and the text a language-model call can return.
Topics == {"t1", "t2"}
DebateExpertIds == {"expert_1"}
Modes == {"a", "b", "c", "x"}
Contents == {"x", "y"}

\* The turns argument of run(): << >> is None, <<n>> is the integer n.
TurnArgs == {<< >>} \cup { <<n>> : n \in -1..MaxTurns }

\* config values of max_turns_per_persona (not validated by __init__).
ConfigMaxTurns == 0..MaxTurns

\* Node name -> persona key, debate_graph.py:88-104.
PersonaKey(node) ==
    CASE node = "optimist"   -> "P_OPT"
      [] node = "skeptic"    -> "P_SKEP"
      [] node = "competitor" -> "P_COMP"
      [] node = "regulator"  -> "P_REG"
      [] node = "moderator"  -> "P_MOD"

\* self.personas[persona_key]['name'], debate_graph.py:82.
PersonaName(key) ==
    CASE key = "P_OPT"  -> "Optimist"
      [] key = "P_SKEP" -> "Skeptic"
      [] key = "P_COMP" -> "Competitor"
      [] key = "P_REG"  -> "Regulator"
      [] key = "P_MOD"  -> "Moderator"

Nodes == {"optimist", "skeptic", "competitor", "regulator", "moderator"}

\* Mutant of NextTurns: the counter is not advanced.
NextTurnsStuck(t) == t

\* Mutant of NextTurns: the counter is advanced twice.
NextTurnsTwice(t) == t + 2

\* debate_graph.py:85, "turns": state['turns'] + 1.
NextTurns(t) == t + 1

\* Mutant of GenerateResponse: messages is a plain channel, the node's list
\* replaces the transcript.
GenerateResponseOverwrites(st, persona_key, content) ==
    [st EXCEPT !.messages =
                   << [name |-> PersonaName(persona_key), content |-> content] >>,
               !.current_speaker = persona_key,
               !.turns = NextTurns(st.turns)]

\* debate_graph.py:52-85 merged into the state by the graph: messages is an
\* operator.add channel (the one new message is appended), current_speaker and
\* turns are overwritten.
GenerateResponse(st, persona_key, content) ==
    [st EXCEPT !.messages = st.messages \o
                   << [name |-> PersonaName(persona_key), content |-> content] >>,
               !.current_speaker = persona_key,
               !.turns = NextTurns(st.turns)]

\* Mutant of EdgesA: the optimist's edge skips the skeptic.
EdgesASkip(node) ==
    CASE node = "optimist"  -> "moderator"
      [] node = "skeptic"   -> "moderator"
      [] node = "moderator" -> "END"

\* debate_graph.py:121-124.
EdgesA(node) ==
    CASE node = "optimist"  -> "skeptic"
      [] node = "skeptic"   -> "moderator"
      [] node = "moderator" -> "END"

\* Mutant of EdgesB: the competitor's edge goes straight to the regulator.
EdgesBSkip(node) ==
    CASE node = "optimist"   -> "competitor"
      [] node = "competitor" -> "regulator"
      [] node = "skeptic"    -> "regulator"
      [] node = "regulator"  -> "moderator"
      [] node = "moderator"  -> "END"

\* debate_graph.py:138-143.
EdgesB(node) ==
    CASE node = "optimist"   -> "competitor"
      [] node = "competitor" -> "skeptic"
      [] node = "skeptic"    -> "regulator"
      [] node = "regulator"  -> "moderator"
      [] node = "moderator"  -> "END"

\* Mutant of Router: below the bound the persona that just spoke goes again.
RouterSameSpeaker(st, mt) ==
    IF st.turns >= mt * 2 THEN "moderator"
    ELSE IF st.current_speaker = "P_OPT" THEN "optimist" ELSE "skeptic"

\* Mutant of Router: the bound of check_turns (max_turns * 3) is used.
RouterTimesThree(st, mt) ==
    IF st.turns >= mt * 3 THEN "moderator"
    ELSE IF st.current_speaker = "P_OPT" THEN "skeptic" ELSE "optimist"

\* debate_graph.py:155-162, router of mode C.
Router(st, mt) ==
    IF st.turns >= mt * 2 THEN "moderator"
    ELSE IF st.current_speaker = "P_OPT" THEN "skeptic" ELSE "optimist"

\* debate_graph.py:164-166, the edges of mode C: the router's answer through
\* the path map of the node, or moderator -> END.
EdgesC(node, st, mt) ==
    IF node = "moderator" THEN "END" ELSE Router(st, mt)

\* The node that follows `node` in graph g, given the state after the node ran.
NextNode(g, node, st, mt) ==
    CASE g = "a" -> EdgesA(node)
      [] g = "b" -> EdgesB(node)
      [] g = "c" -> EdgesC(node, st, mt)

\* debate_graph.py:184-192.
InitialState(topic, expert_id, mode) ==
    [topic |-> topic, expert_id |-> expert_id, messages |-> << >>,
     current_speaker |-> "System", turns |-> 0, mode |-> mode, status |-> "start"]

\* debate_graph.py:24-40, the engine after construction; no run yet.
DebateInit ==
    /\ d_pc = "idle"
    /\ cfg_max_turns \in ConfigMaxTurns
    /\ max_turns = cfg_max_turns
    /\ run_turns = << >>
    /\ graph = "a"
    /\ state = InitialState("t1", "expert_1", "a")
    /\ final_state = << >>

\* debate_graph.py:169-194, run() up to the call of app.invoke.
Run ==
    /\ d_pc \in {"idle", "done", "raised"}
    /\ \E topic \in Topics, expert_id \in DebateExpertIds, mode \in Modes, turns \in TurnArgs :
          /\ run_turns' = turns
          /\ max_turns' = IF turns # << >> /\ turns[1] > 0 THEN turns[1] ELSE max_turns
          /\ graph' = IF mode = "b" THEN "b" ELSE IF mode = "c" THEN "c" ELSE "a"
          /\ state' = InitialState(topic, expert_id, mode)
    /\ d_pc' = "optimist"
    /\ final_state' = << >>
    /\ UNCHANGED cfg_max_turns
    /\ UNCHANGED debateOthers

\* One node of the graph runs and the language model returns: the node's
\* update is merged and the outgoing edge is followed.
NodeSpeaks ==
    /\ d_pc \in Nodes
    /\ Len(state.messages) < MaxMessages
    /\ \E content \in Contents :
          LET st == GenerateResponse(state, PersonaKey(d_pc), content)
          IN  /\ state' = st
              /\ d_pc' = NextNode(graph, d_pc, st, max_turns)
    /\ UNCHANGED <<cfg_max_turns, max_turns, run_turns, graph, final_state>>
    /\ UNCHANGED debateOthers

\* debate_graph.py:57 and 70: the retriever or the language model raises inside
\* a node; nothing catches it in the node, in run() (194-195) or in main
\* (main.py:201), so run() returns nothing.
NodeRaises ==
    /\ d_pc \in Nodes
    /\ d_pc' = "raised"
    /\ UNCHANGED <<cfg_max_turns, max_turns, run_turns, graph, state, final_state>>
    /\ UNCHANGED debateOthers

\* debate_graph.py:194-195, the graph reached END: invoke returns the state
\* and run() returns it.
RunReturns ==
    /\ d_pc = "END"
    /\ final_state' = <<state>>
    /\ d_pc' = "done"
    /\ UNCHANGED <<cfg_max_turns, max_turns, run_turns, graph, state>>
    /\ UNCHANGED debateOthers

DebateNext ==
    \/ Run
    \/ NodeSpeaks
    \/ NodeRaises
    \/ RunReturns

(***************************************************************************)
(* VectorStoreManager, vector_store.py.  A string is a sequence of         *)
(* characters.                                                             *)
(***************************************************************************)

\* 'expert_', vector_store.py:173 and 181.
Prefix == <<"e", "x", "p", "e", "r", "t", "_">>

\* The characters int() reads as decimal digits.
Digits == <<"0", "1", "2", "3", "4", "5", "6", "7", "8", "9">>

DecimalChars == { Digits[k] : k \in DOMAIN Digits }

\* str.isdigit() is also true of digit characters int() rejects, such as the
\* superscript two, written "sup2" here.
IsDigitChar(c) == c \in DecimalChars \cup {"sup2"}

\* str.startswith.
StartsWith(str, pre) == Len(str) >= Len(pre) /\ SubSeq(str, 1, Len(pre)) = pre

\* eid[7:].
Suffix(eid) == SubSeq(eid, Len(Prefix) + 1, Len(eid))

\* str.isdigit(): non-empty and every character a digit character.
IsDigit(str) == str # << >> /\ \A k \in DOMAIN str : IsDigitChar(str[k])

\* Whether int(str) returns (else it raises ValueError), for str.isdigit() strings.
IntReturns(str) == \A k \in DOMAIN str : str[k] \in DecimalChars

DigitValue(c) == (CHOOSE k \in DOMAIN Digits : Digits[k] = c) - 1

\* int(str) of a string of decimal digits.
RECURSIVE ParseInt(_)
ParseInt(str) ==
    IF str = << >> THEN 0
    ELSE ParseInt(SubSeq(str, 1, Len(str) - 1)) * 10 + DigitValue(str[Len(str)])

\* str(n) for n >= 0, as the f-string of vector_store.py:181 formats it.
RECURSIVE Str(_)
Str(n) ==
    IF n < 10 THEN <<Digits[n + 1]>>
    ELSE Str(n \div 10) \o <<Digits[(n % 10) + 1]>>

ExpertId(suffix) == Prefix \o suffix

\* The expert ids add_expert_knowledge and delete_expert are called with.
IdUniverse ==
    { ExpertId(<<"1">>), ExpertId(<<"3">>), ExpertId(<<"9">>),
      ExpertId(<<"0", "2">>), ExpertId(<<"1", "a">>), ExpertId(<<"sup2">>),
      <<"e", "x", "p", "_", "7">> }

Papers == {"p1", "p2"}

\* The paper lists add_expert_knowledge is called with.
PaperLists == {<< >>, <<"p1">>, <<"p1", "p2">>}

\* vector_store.py:47-56, the metadata of one stored document.
Metadata(paper, expert_id, topic) ==
    [expert_id |-> expert_id, topic |-> topic, paper_id |-> paper]

\* vector_store.py:99-131, the expert ids of list_experts() in the order the
\* expert_map dict first met them.
RECURSIVE ExpertMapKeys(_, _)
ExpertMapKeys(metadatas, keys) ==
    IF metadatas = << >> THEN keys
    ELSE LET e_id == Head(metadatas).expert_id
         IN  IF e_id = << >> \/ \E k \in DOMAIN keys : keys[k] = e_id
             THEN ExpertMapKeys(Tail(metadatas), keys)
             ELSE ExpertMapKeys(Tail(metadatas), Append(keys, e_id))

\* vector_store.py:93-134: the scan of all metadata, or [] when
\* vector_store.get raised.
ListExperts(docs, get_returns) ==
    IF get_returns THEN ExpertMapKeys(docs, << >>) ELSE << >>

\* Mutant of UpdateMax: the comparison is dropped, the last number wins.
UpdateMaxLast(max_id, num) == num

\* vector_store.py:176-177.
UpdateMax(max_id, num) == IF num > max_id THEN num ELSE max_id

\* vector_store.py:169-179, the loop over the experts.
RECURSIVE MaxId(_, _)
MaxId(experts, max_id) ==
    IF experts = << >> THEN max_id
    ELSE LET eid == Head(experts)
         IN  IF StartsWith(eid, Prefix) /\ IsDigit(Suffix(eid)) /\ IntReturns(Suffix(eid))
             THEN MaxId(Tail(experts), UpdateMax(max_id, ParseInt(Suffix(eid))))
             ELSE MaxId(Tail(experts), max_id)

\* Mutant of NextExpertId: the number of experts plus one.
NextExpertIdCount(experts) == Prefix \o Str(Len(experts) + 1)

\* vector_store.py:167-181.
NextExpertId(experts) == Prefix \o Str(MaxId(experts, 0) + 1)

\* Mutant of AddDocuments: the documents are tagged with their topic only.
AddDocumentsUntagged(docs, papers, expert_id, topic) ==
    docs \o [k \in DOMAIN papers |-> Metadata(papers[k], << >>, topic)]

\* vector_store.py:42-61, the collection after add_expert_knowledge: one
\* document per paper, in order (nothing is stored for an empty list).
AddDocuments(docs, papers, expert_id, topic) ==
    docs \o [k \in DOMAIN papers |-> Metadata(papers[k], expert_id, topic)]

\* Mutant of DeleteWhere: only the first document of the partition is deleted.
DeleteWhereFirst(docs, expert_id) ==
    LET first == CHOOSE k \in DOMAIN docs :
                     /\ docs[k].expert_id = expert_id
                     /\ \A j \in 1..(k - 1) : docs[j].expert_id # expert_id
    IN  SubSeq(docs, 1, first - 1) \o SubSeq(docs, first + 1, Len(docs))

\* vector_store.py:153, the collection after
\* vector_store.delete(where={"expert_id": expert_id}).
DeleteWhere(docs, expert_id) == SelectSeq(docs, LAMBDA m : m.expert_id # expert_id)

\* vector_store.py:28-32, a fresh collection.
StoreInit ==
    /\ store = << >>
    /\ generated = << >>
    /\ scan_ok = TRUE
    /\ last_op = "none"

\* vector_store.py:34-61.
AddExpertKnowledge ==
    /\ \E papers \in PaperLists, expert_id \in IdUniverse, topic \in Topics :
          /\ Len(store) + Len(papers) <= MaxDocs
          /\ store' = AddDocuments(store, papers, expert_id, topic)
    /\ last_op' = "add"
    /\ generated' = << >>
    /\ scan_ok' = TRUE
    /\ UNCHANGED storeOthers

\* vector_store.py:74-84.
ExpertExists(docs, expert_id) == \E k \in DOMAIN docs : docs[k].expert_id = expert_id

\* vector_store.py:145-157 when the store answers: nothing happens for an
\* unknown id, else every document tagged expert_id is deleted.
DeleteExpert ==
    /\ \E expert_id \in IdUniverse :
          store' = IF ExpertExists(store, expert_id)
                   THEN DeleteWhere(store, expert_id)
                   ELSE store
    /\ last_op' = "delete"
    /\ generated' = << >>
    /\ scan_ok' = TRUE
    /\ UNCHANGED storeOthers

\* vector_store.py:162-181 with list_experts' scan returning.
GenerateNextExpertId ==
    /\ generated' = NextExpertId(ListExperts(store, TRUE))
    /\ scan_ok' = TRUE
    /\ last_op' = "generate"
    /\ UNCHANGED store
    /\ UNCHANGED storeOthers

\* vector_store.py:162-181 with vector_store.get raising inside list_experts,
\* which catches the exception and returns [] (132-134).
GenerateNextExpertIdScanFails ==
    /\ generated' = NextExpertId(ListExperts(store, FALSE))
    /\ scan_ok' = FALSE
    /\ last_op' = "generate"
    /\ UNCHANGED store
    /\ UNCHANGED storeOthers

StoreNext ==
    \/ AddExpertKnowledge
    \/ DeleteExpert
    \/ GenerateNextExpertId
    \/ GenerateNextExpertIdScanFails

(***************************************************************************)
(* QueryExpander, query_expander.py:11-322.  A Python str is a sequence of *)
(* one-character strings.                                                  *)
(***************************************************************************)

\* The characters str.strip() and str.split() treat as white space.
Whitespace == {" ", "\n", "\t"}

RECURSIVE LStrip(_, _)
LStrip(str, chars) ==
    IF str # << >> /\ Head(str) \in chars THEN LStrip(Tail(str), chars) ELSE str

RECURSIVE RStrip(_, _)
RStrip(str, chars) ==
    IF str # << >> /\ str[Len(str)] \in chars
    THEN RStrip(SubSeq(str, 1, Len(str) - 1), chars)
    ELSE str

\* str.strip(chars).
StripChars(str, chars) == RStrip(LStrip(str, chars), chars)

\* str.strip().
Strip(str) == StripChars(str, Whitespace)

\* str.replace(c, '').
Remove(str, c) == SelectSeq(str, LAMBDA x : x # c)

\* The pieces of str between the characters of seps, empty pieces included.
RECURSIVE SplitOn(_, _, _, _)
SplitOn(str, seps, piece, pieces) ==
    IF str = << >> THEN Append(pieces, piece)
    ELSE IF Head(str) \in seps
         THEN SplitOn(Tail(str), seps, << >>, Append(pieces, piece))
         ELSE SplitOn(Tail(str), seps, Append(piece, Head(str)), pieces)

\* str.split(sep) for a one-character sep.
Split(str, sep) == SplitOn(str, {sep}, << >>, << >>)

\* str.split(): the runs of non-white-space characters.
SplitWords(str) == SelectSeq(SplitOn(str, Whitespace, << >>, << >>), LAMBDA w : w # << >>)

UpperLetters == <<"A", "B", "C", "D", "E", "F", "G", "H", "I", "J", "K", "L", "M", "N", "O", "P", "Q", "R", "S", "T", "U", "V", "W", "X", "Y", "Z">>

LowerLetters == <<"a", "b", "c", "d", "e", "f", "g", "h", "i", "j", "k", "l", "m", "n", "o", "p", "q", "r", "s", "t", "u", "v", "w", "x", "y", "z">>

\* str.lower() on ASCII text.
Lower(str) ==
    [k \in DOMAIN str |->
        IF \E j \in DOMAIN UpperLetters : UpperLetters[j] = str[k]
        THEN LowerLetters[CHOOSE j \in DOMAIN UpperLetters : UpperLetters[j] = str[k]]
        ELSE str[k]]

\* sep.join(strs).
RECURSIVE Join(_, _)
Join(strs, sep) ==
    IF strs = << >> THEN << >>
    ELSE IF Len(strs) = 1 THEN strs[1]
    ELSE strs[1] \o sep \o Join(Tail(strs), sep)

\* re.findall(r'\d+', str): the maximal runs of decimal digits.
RECURSIVE DigitRuns(_, _, _)
DigitRuns(str, run, runs) ==
    IF str = << >> THEN (IF run = << >> THEN runs ELSE Append(runs, run))
    ELSE IF Head(str) \in DecimalChars
         THEN DigitRuns(Tail(str), Append(run, Head(str)), runs)
         ELSE DigitRuns(Tail(str), << >>, IF run = << >> THEN runs ELSE Append(runs, run))

\* What a language-model call does: it raises, or it returns a response whose
\* .content is a str.
Raises == [raised |-> TRUE, content |-> << >>]

Returns(content) == [raised |-> FALSE, content |-> content]

\* query_expander.py:184-199, the English stop words (the Korean entries of
\* the set are left out; no topic of the model has a Korean word).
Stopwords ==
    { <<"a">>,
      <<"a", "n">>,
      <<"t", "h", "e">>,
      <<"i", "n">>,
      <<"o", "n">>,
      <<"a", "t">>,
      <<"t", "o">>,
      <<"f", "o", "r">>,
      <<"o", "f">>,
      <<"w", "i", "t", "h">>,
      <<"b", "y">>,
      <<"f", "r", "o", "m">>,
      <<"u", "p">>,
      <<"a", "b", "o", "u", "t">>,
      <<"i", "n", "t", "o">>,
      <<"o", "v", "e", "r">>,
      <<"a", "f", "t", "e", "r">>,
      <<"b", "e", "n", "e", "a", "t", "h">>,
      <<"u", "n", "d", "e", "r">>,
      <<"a", "b", "o", "v", "e">>,
      <<"a", "n", "d">>,
      <<"o", "r">>,
      <<"b", "u", "t">>,
      <<"i", "s">>,
      <<"a", "r", "e">>,
      <<"w", "a", "s">>,
      <<"w", "e", "r", "e">>,
      <<"b", "e">>,
      <<"b", "e", "e", "n">>,
      <<"b", "e", "i", "n", "g">>,
      <<"h", "a", "v", "e">>,
      <<"h", "a", "s">>,
      <<"h", "a", "d">>,
      <<"d", "o">>,
      <<"d", "o", "e", "s">>,
      <<"d", "i", "d">>,
      <<"c", "a", "n">>,
      <<"c", "o", "u", "l", "d">>,
      <<"s", "h", "o", "u", "l", "d">>,
      <<"w", "o", "u", "l", "d">>,
      <<"w", "i", "l", "l">>,
      <<"m", "a", "y">>,
      <<"m", "i", "g", "h", "t">>,
      <<"m", "u", "s", "t">>,
      <<"t", "e", "c", "h", "n", "o", "l", "o", "g", "y">>,
      <<"t", "e", "c", "h", "n", "i", "q", "u", "e">>,
      <<"m", "e", "t", "h", "o", "d">>,
      <<"m", "e", "t", "h", "o", "d", "o", "l", "o", "g", "y">>,
      <<"s", "y", "s", "t", "e", "m">>,
      <<"p", "r", "o", "c", "e", "s", "s">>,
      <<"a", "p", "p", "r", "o", "a", "c", "h">>,
      <<"s", "t", "u", "d", "y">>,
      <<"r", "e", "s", "e", "a", "r", "c", "h">>,
      <<"a", "n", "a", "l", "y", "s", "i", "s">>,
      <<"s", "u", "r", "v", "e", "y">>,
      <<"r", "e", "v", "i", "e", "w">>,
      <<"b", "a", "s", "e", "d">>,
      <<"u", "s", "i", "n", "g">>,
      <<"v", "i", "a">>,
      <<"t", "h", "r", "o", "u", "g", "h">> }

\* query_expander.py:200-202.
CountCoreWords(topic_str) ==
    Len(SelectSeq(SplitWords(Lower(topic_str)), LAMBDA w : w \notin Stopwords))

\* Mutant of ExpansionQuery: a failed call yields a placeholder query.
ExpansionQueryPlaceholder(response) ==
    IF response.raised THEN <<"x">>
    ELSE StripChars(StripChars(Strip(response.content), {"\""}), {"'"})

\* query_expander.py:252-260, _generate_synonym_expansion_query after the
\* prompt is built: the stripped response, '' when the call raised.
ExpansionQuery(response) ==
    IF response.raised THEN << >>
    ELSE StripChars(StripChars(Strip(response.content), {"\""}), {"'"})

\* Mutant of ExtractKeywords: the length filter is dropped.
ExtractKeywordsKeepsShort(topic_str, response) ==
    IF response.raised THEN <<topic_str>>
    ELSE LET content == Remove(Remove(Remove(Strip(response.content), "\""), "["), "]")
             pieces == Split(content, ",")
             stripped == [k \in DOMAIN pieces |-> Strip(pieces[k])]
         IN  Take(SelectSeq(stripped, LAMBDA k : k # << >>), 5)

\* query_expander.py:80-94, _extract_keywords after the prompt is built.
ExtractKeywords(topic_str, response) ==
    IF response.raised THEN <<topic_str>>
    ELSE LET content == Remove(Remove(Remove(Strip(response.content), "\""), "["), "]")
             pieces == Split(content, ",")
             stripped == [k \in DOMAIN pieces |-> Strip(pieces[k])]
             kept == SelectSeq(stripped, LAMBDA k : k # << >> /\ Len(k) > 2)
         IN  Take(kept, 5)

\* query_expander.py:100-124, _generate_synonyms.
GenerateSynonyms(topic_str, response) ==
    IF Len(SplitWords(topic_str)) >= 10 THEN << >>
    ELSE IF response.raised THEN << >>
    ELSE LET content == Remove(Remove(Strip(response.content), "\""), "'")
             pieces == Split(content, ",")
             stripped == [k \in DOMAIN pieces |-> Strip(pieces[k])]
             kept == SelectSeq(stripped, LAMBDA s : s # << >> /\ Len(s) > 3)
         IN  Take(kept, 3)

\* itertools.combinations(s, r) as a list: the r-element subsequences of s in
\* lexicographic order of their positions.
RECURSIVE Combinations(_, _)
Combinations(s, r) ==
    IF r = 0 THEN << << >> >>
    ELSE IF Len(s) < r THEN << >>
    ELSE LET rest == Combinations(Tail(s), r - 1)
         IN  [k \in DOMAIN rest |-> <<Head(s)>> \o rest[k]] \o Combinations(Tail(s), r)

\* Mutant of Fallback: the last `lim` subsets instead of the first.
FallbackLast(combos, lim) == SubSeq(combos, Len(combos) - Min(lim, Len(combos)) + 1, Len(combos))

\* query_expander.py:170 and 175, the fallback combos[:limit].
Fallback(combos, lim) == Take(combos, lim)

\* query_expander.py:160-166: the indices read from the response, and the
\* subsets at those that are in range, in the order read.
SelectedCombos(combos, content) ==
    LET runs == DigitRuns(Strip(content), << >>, << >>)
        indices == [k \in DOMAIN runs |-> ParseInt(runs[k])]
        valid == SelectSeq(indices, LAMBDA idx : 0 <= idx /\ idx < Len(combos))
    IN  [k \in DOMAIN valid |-> combos[valid[k] + 1]]

\* Mutant of RankCombinations: the selection is returned without [:limit].
RankCombinationsNoLimit(combos, response, lim) ==
    IF response.raised THEN Fallback(combos, lim)
    ELSE LET selected_combos == SelectedCombos(combos, response.content)
         IN  IF selected_combos = << >>
             THEN Fallback(combos, lim)
             ELSE selected_combos

\* query_expander.py:126-175, _rank_combinations.
RankCombinations(combos, response, lim) ==
    IF response.raised THEN Fallback(combos, lim)
    ELSE LET selected_combos == SelectedCombos(combos, response.content)
         IN  IF selected_combos = << >>
             THEN Fallback(combos, lim)
             ELSE Take(selected_combos, lim)

\* f'"{k}"'.
Quote(k) == <<"\"">> \o k \o <<"\"">>

\* query_expander.py:298 and 320, " AND ".join of the quoted phrases.
AndQuery(phrases) ==
    Join([k \in DOMAIN phrases |-> Quote(phrases[k])], <<" ", "A", "N", "D", " ">>)

\* Mutant of RelaxationThreshold: N - 1 queries from 2 phrases on.
RelaxationThresholdTwo(N) == N >= 2

\* query_expander.py:312, the guard of the N-1 strategy.
RelaxationThreshold(N) == N >= 3

\* Mutant of ExpansionThreshold: expansion up to 4 core words.
ExpansionThresholdFour(core_word_count) == core_word_count <= 4

\* query_expander.py:285, the guard of the synonym-expansion strategy.
ExpansionThreshold(core_word_count) == core_word_count < 4

\* query_expander.py:302, the guard of the synonym strategy.
SynonymThreshold(topic_str) == Len(SplitWords(topic_str)) < 10

\* The topics of the model: stop words followed by core words.
MaxCoreWords == 4
MaxStopWords == 8

StopWordCycle == <<<<"T", "h", "e">>, <<"o", "f">>, <<"a">>>>

CoreWordCycle == <<<<"b">>, <<"c">>, <<"d">>, <<"e">>>>

TopicWords(core, stopn) ==
    [k \in 1..stopn |-> StopWordCycle[((k - 1) % Len(StopWordCycle)) + 1]]
        \o [k \in 1..core |-> CoreWordCycle[((k - 1) % Len(CoreWordCycle)) + 1]]

TopicStrings ==
    { Join(TopicWords(core, stopn), <<" ">>) :
        core \in 0..MaxCoreWords, stopn \in {0, 1, MaxStopWords} }

\* The texts the model calls can return.
ExpansionContents ==
    { <<"(", "\"", "b", "\"", " ", "O", "R", " ", "\"", "c", "\"", ")">>,
      <<"\"", "b", " ", "d", "\"">>,
      << >>,
      <<" ", "\"", "\"", " ">>,
      <<"'", "'">> }

KeywordContents ==
    { << >>,
      <<"b", "c", "d">>,
      <<"'", "b", "c", "d", "'", ",", " ", "e", "f", "g">>,
      <<"b", "c", "d", ",", " ", "e", "f", "g">>,
      <<"\"", "b", "c", "d", "\"", ",", " ", "\"", "e", "f", "g", "\"">>,
      <<"[", "b", "c", "d", ",", " ", "e", "f", "g", ",", " ", "h", "i", "j", "]">>,
      <<"b", "c", "d", ",", "e", "f", ",", "g", "h", "i", ",", " ", "j", "k", "l">>,
      <<"b", "c", "d", ",", " ", "b", "c", "d", ",", " ", "b", "c", "d", ",", " ", "e", "f", "g">>,
      <<"b", "c", "d", ",", " ", "e", "f", "g", ",", " ", "h", "i", "j", ",", " ", "k", "l", "m", ",", " ", "n", "o", "p">>,
      <<"b", "c", "d", ",", " ", "e", "f", "g", ",", " ", "h", "i", "j", ",", " ", "k", "l", "m", ",", " ", "n", "o", "p", ",", " ", "q", "r", "s">> }

SynonymContents ==
    { << >>,
      <<"'", "b", "c", "d", "e", "'">>,
      <<"b", "c", "d", "e", ",", " ", "f", "g", "h", ",", " ", "\"", "i", "j", "k", "l", "\"">>,
      <<"b", "c", "d", "e", ",", " ", "f", "g", "h", "i", ",", " ", "j", "k", "l", "m", ",", " ", "n", "o", "p", "q">> }

RankContents ==
    { <<"0", ",", " ", "2">>,
      <<"2">>,
      <<"1", ",", " ", "1">>,
      <<"5", ",", " ", "7">>,
      <<"n", "o", "n", "e">>,
      << >>,
      <<"-", "1">>,
      <<"9", ",", " ", "0">>,
      <<"[", "2", ",", " ", "1", ",", " ", "0", "]">> }

(***************************************************************************)
(* generate_search_queries, query_expander.py:262-322.                     *)
(***************************************************************************)
QueryInit ==
    /\ q_pc = "idle"
    /\ q_topic = << >>
    /\ queries = << >>
    /\ query_kinds = << >>
    /\ keywords = << >>
    /\ llm_calls = << >>
    /\ search_queries = << >>

\* The statement after the synonym strategy: the N-1 strategy or the return.
AfterSynonyms(kws) == IF RelaxationThreshold(Len(kws)) THEN "rank" ELSE "return"

\* The statement after the exact-AND query is appended.
AfterExtract(topic_str, kws) ==
    IF SynonymThreshold(topic_str) THEN "synonyms" ELSE AfterSynonyms(kws)

\* query_expander.py:279-285, a call generate_search_queries(topic).  The
\* expander keeps nothing between calls, so one call per behaviour shows all.
GenerateSearchQueriesCall ==
    /\ q_pc = "idle"
    /\ \E t \in TopicStrings :
          /\ q_topic' = t
          /\ q_pc' = IF ExpansionThreshold(CountCoreWords(t)) THEN "expand" ELSE "extract"
    /\ queries' = << >>
    /\ query_kinds' = << >>
    /\ keywords' = << >>
    /\ llm_calls' = << >>
    /\ search_queries' = << >>
    /\ UNCHANGED queryOthers

\* The state after query_expander.py:288-291 for one outcome of the call.
Expansion(response) ==
    LET expanded_query == ExpansionQuery(response)
    IN  /\ queries' = IF expanded_query # << >>
                      THEN Append(queries, expanded_query) ELSE queries
        /\ query_kinds' = IF expanded_query # << >>
                          THEN Append(query_kinds, "expansion") ELSE query_kinds
        /\ llm_calls' = Append(llm_calls, [call |-> "expansion", response |-> response])
        /\ q_pc' = "extract"
        /\ UNCHANGED <<q_topic, keywords, search_queries>>
        /\ UNCHANGED queryOthers

\* query_expander.py:288-291, the expansion model call returns.
ExpansionReturns ==
    /\ q_pc = "expand"
    /\ \E content \in ExpansionContents : Expansion(Returns(content))

\* query_expander.py:258-260, the expansion model call raises.
ExpansionRaises ==
    /\ q_pc = "expand"
    /\ Expansion(Raises)

\* Mutant of Extraction: the exact-AND query is appended only when phrases
\* were extracted.
ExtractionSkipsEmpty(response) ==
    LET kws == ExtractKeywords(q_topic, response)
    IN  /\ keywords' = kws
        /\ queries' = IF kws # << >> THEN Append(queries, AndQuery(kws)) ELSE queries
        /\ query_kinds' = IF kws # << >> THEN Append(query_kinds, "and") ELSE query_kinds
        /\ llm_calls' = Append(llm_calls, [call |-> "keywords", response |-> response])
        /\ q_pc' = AfterExtract(q_topic, kws)
        /\ UNCHANGED <<q_topic, search_queries>>
        /\ UNCHANGED queryOthers

\* The state after query_expander.py:294-299 for one outcome of the call.
Extraction(response) ==
    LET kws == ExtractKeywords(q_topic, response)
    IN  /\ keywords' = kws
        /\ queries' = Append(queries, AndQuery(kws))
        /\ query_kinds' = Append(query_kinds, "and")
        /\ llm_calls' = Append(llm_calls, [call |-> "keywords", response |-> response])
        /\ q_pc' = AfterExtract(q_topic, kws)
        /\ UNCHANGED <<q_topic, search_queries>>
        /\ UNCHANGED queryOthers

\* query_expander.py:294-299, the keyword model call returns.
ExtractReturns ==
    /\ q_pc = "extract"
    /\ \E content \in KeywordContents : Extraction(Returns(content))

\* query_expander.py:91-94, the keyword model call raises.
ExtractRaises ==
    /\ q_pc = "extract"
    /\ Extraction(Raises)

\* The state after query_expander.py:303-307 for one outcome of the call.
Synonyms(response) ==
    LET synonyms == GenerateSynonyms(q_topic, response)
    IN  /\ queries' = queries \o [k \in DOMAIN synonyms |-> Quote(synonyms[k])]
        /\ query_kinds' = query_kinds \o [k \in DOMAIN synonyms |-> "synonym"]
        /\ llm_calls' = Append(llm_calls, [call |-> "synonyms", response |-> response])
        /\ q_pc' = AfterSynonyms(keywords)
        /\ UNCHANGED <<q_topic, keywords, search_queries>>
        /\ UNCHANGED queryOthers

\* query_expander.py:303-307, the synonym model call returns.
SynonymsReturns ==
    /\ q_pc = "synonyms"
    /\ \E content \in SynonymContents : Synonyms(Returns(content))

\* query_expander.py:122-124, the synonym model call raises.
SynonymsRaises ==
    /\ q_pc = "synonyms"
    /\ Synonyms(Raises)

\* The state after query_expander.py:313-320 for one outcome of the call.
Relaxation(response) ==
    LET combos == Combinations(keywords, Len(keywords) - 1)
        ranked_combos == RankCombinations(combos, response, 2)
    IN  /\ queries' = queries \o [k \in DOMAIN ranked_combos |-> AndQuery(ranked_combos[k])]
        /\ query_kinds' = query_kinds \o [k \in DOMAIN ranked_combos |-> "n-1"]
        /\ llm_calls' = Append(llm_calls, [call |-> "ranking", response |-> response])
        /\ q_pc' = "return"
        /\ UNCHANGED <<q_topic, keywords, search_queries>>
        /\ UNCHANGED queryOthers

\* query_expander.py:313-320, the ranking model call returns.
RankReturns ==
    /\ q_pc = "rank"
    /\ \E content \in RankContents : Relaxation(Returns(content))

\* query_expander.py:173-175, the ranking model call raises.
RankRaises ==
    /\ q_pc = "rank"
    /\ Relaxation(Raises)

\* query_expander.py:322.
GenerateSearchQueriesReturn ==
    /\ q_pc = "return"
    /\ search_queries' = queries
    /\ q_pc' = "done"
    /\ UNCHANGED <<q_topic, queries, query_kinds, keywords, llm_calls>>
    /\ UNCHANGED queryOthers

QueryNext ==
    \/ GenerateSearchQueriesCall
    \/ ExpansionReturns
    \/ ExpansionRaises
    \/ ExtractReturns
    \/ ExtractRaises
    \/ SynonymsReturns
    \/ SynonymsRaises
    \/ RankReturns
    \/ RankRaises
    \/ GenerateSearchQueriesReturn

(***************************************************************************)
(* The partition operations of VectorStoreManager as their caller sees     *)
(* them: arguments, return values, and the exceptions of the collection.   *)
(***************************************************************************)

\* The expert ids the partition operations are called with.
PartitionIds ==
    { ExpertId(<<"1">>), ExpertId(<<"3">>), <<"e", "x", "p", "_", "7">> }

\* The largest k a retriever is built with (1..MaxK).
MaxK == 2

\* Mutant of Tagged: the retriever is built without the filter.
TaggedUnfiltered(docs, expert_id) == DOMAIN docs

\* vector_store.py:63-72, the filter of the retriever: the positions of the
\* documents whose metadata carries expert_id.
Tagged(docs, expert_id) == { k \in DOMAIN docs : docs[k].expert_id = expert_id }

\* vector_store.py:63-72, what a retriever built with (expert_id, k) can
\* return for some query: the k documents nearest to the query among those
\* that pass the filter, all of them when there are at most k.
Retrievals(docs, expert_id, k) ==
    { S \in SUBSET Tagged(docs, expert_id) :
        Cardinality(S) = Min(k, Cardinality(Tagged(docs, expert_id))) }

PartitionInit ==
    /\ op_id = << >>
    /\ op_k = 0
    /\ op_result = "none"
    /\ store_raised = FALSE
    /\ added = {}
    /\ hits = {}

\* vector_store.py:34-61, add_expert_knowledge returns (None).
PartitionAdd ==
    /\ \E papers \in PaperLists, expert_id \in PartitionIds, topic \in Topics :
          /\ Len(store) + Len(papers) <= MaxDocs
          /\ store' = AddDocuments(store, papers, expert_id, topic)
          /\ op_id' = expert_id
          /\ added' = (Len(store) + 1)..(Len(store) + Len(papers))
    /\ last_op' = "add"
    /\ op_result' = "none"
    /\ store_raised' = FALSE
    /\ op_k' = 0
    /\ hits' = {}
    /\ UNCHANGED <<generated, scan_ok>>
    /\ UNCHANGED partitionOthers

\* vector_store.py:74-84, expert_exists returns.
PartitionExists ==
    /\ \E expert_id \in PartitionIds :
          /\ op_id' = expert_id
          /\ op_result' = IF ExpertExists(store, expert_id) THEN "true" ELSE "false"
    /\ last_op' = "exists"
    /\ store_raised' = FALSE
    /\ op_k' = 0
    /\ added' = {}
    /\ hits' = {}
    /\ UNCHANGED <<store, generated, scan_ok>>
    /\ UNCHANGED partitionOthers

\* vector_store.py:78, vector_store.get raises inside expert_exists: the
\* method has no try block, the exception leaves it.
PartitionExistsRaises ==
    /\ \E expert_id \in PartitionIds : op_id' = expert_id
    /\ last_op' = "exists"
    /\ op_result' = "raised"
    /\ store_raised' = TRUE
    /\ op_k' = 0
    /\ added' = {}
    /\ hits' = {}
    /\ UNCHANGED <<store, generated, scan_ok>>
    /\ UNCHANGED partitionOthers

\* vector_store.py:145-157, delete_expert when the collection answers: False
\* for an unknown id, else the partition is deleted and True returned.
PartitionDelete ==
    /\ \E expert_id \in PartitionIds :
          /\ op_id' = expert_id
          /\ IF ExpertExists(store, expert_id)
             THEN store' = DeleteWhere(store, expert_id) /\ op_result' = "true"
             ELSE store' = store /\ op_result' = "false"
    /\ last_op' = "delete"
    /\ store_raised' = FALSE
    /\ op_k' = 0
    /\ added' = {}
    /\ hits' = {}
    /\ UNCHANGED <<generated, scan_ok>>
    /\ UNCHANGED partitionOthers

\* vector_store.py:158-160, the collection raises inside delete_expert (in
\* expert_exists or in vector_store.delete): the except clause returns False.
PartitionDeleteFails ==
    /\ \E expert_id \in PartitionIds : op_id' = expert_id
    /\ last_op' = "delete"
    /\ op_result' = "false"
    /\ store_raised' = TRUE
    /\ op_k' = 0
    /\ added' = {}
    /\ hits' = {}
    /\ UNCHANGED <<store, generated, scan_ok>>
    /\ UNCHANGED partitionOthers

\* vector_store.py:63-72, get_retriever(expert_id, k) and one query through it.
PartitionRetrieve ==
    /\ \E expert_id \in PartitionIds, k \in 1..MaxK :
          /\ op_id' = expert_id
          /\ op_k' = k
          /\ hits' \in Retrievals(store, expert_id, k)
    /\ last_op' = "retrieve"
    /\ op_result' = "none"
    /\ store_raised' = FALSE
    /\ added' = {}
    /\ UNCHANGED <<store, generated, scan_ok>>
    /\ UNCHANGED partitionOthers

PartitionNext ==
    \/ PartitionAdd
    \/ PartitionExists
    \/ PartitionExistsRaises
    \/ PartitionDelete
    \/ PartitionDeleteFails
    \/ PartitionRetrieve

(***************************************************************************)
(* The new-expert flow of main.py (139-196) and the --delete flow (74-89), *)
(* run by processes that share the collection.                             *)
(***************************************************************************)

\* The runs that can be under way at the same time.
Pipelines == {1, 2}

\* args.topic of each run.
PipelineTopic(p) == IF p = 1 THEN "t1" ELSE "t2"

\* The largest number generate_next_expert_id hands out in the model.
MaxExperts == 3

PipelineInit ==
    /\ p_pc = [p \in Pipelines |-> "idle"]
    /\ p_id = [p \in Pipelines |-> << >>]
    /\ created_max = 0

\* main.py:141, expert_id = vsm.generate_next_expert_id(), for one outcome of
\* the metadata scan.
AssignExpertId(p, get_returns) ==
    /\ p_pc[p] = "idle"
    /\ MaxId(ListExperts(store, get_returns), 0) < MaxExperts
    /\ generated' = NextExpertId(ListExperts(store, get_returns))
    /\ scan_ok' = get_returns
    /\ last_op' = "generate"
    /\ p_id' = [p_id EXCEPT ![p] = generated']
    /\ p_pc' = [p_pc EXCEPT ![p] = "acquire"]
    /\ UNCHANGED <<store, created_max>>

\* main.py:141 with the scan of list_experts returning.
PipelineGenerate ==
    /\ \E p \in Pipelines : AssignExpertId(p, TRUE)
    /\ UNCHANGED pipelineOthers

\* main.py:141 with vector_store.get raising inside list_experts.
PipelineGenerateScanFails ==
    /\ \E p \in Pipelines : AssignExpertId(p, FALSE)
    /\ UNCHANGED pipelineOthers

\* main.py:165-168, no source returned anything: the run ends, nothing stored.
PipelineNoData ==
    /\ \E p \in Pipelines :
          /\ p_pc[p] = "acquire"
          /\ p_pc' = [p_pc EXCEPT ![p] = "idle"]
          /\ p_id' = [p_id EXCEPT ![p] = << >>]
    /\ UNCHANGED <<created_max, storeVars>>
    /\ UNCHANGED pipelineOthers

\* main.py:196, vsm.add_expert_knowledge(combined_data, expert_id, args.topic)
\* with a non-empty combined_data.
PipelineAdd ==
    /\ \E p \in Pipelines, papers \in PaperLists \ {<< >>} :
          /\ p_pc[p] = "acquire"
          /\ Len(store) + Len(papers) <= MaxDocs
          /\ store' = AddDocuments(store, papers, p_id[p], PipelineTopic(p))
          /\ created_max' = UpdateMax(created_max, ParseInt(Suffix(p_id[p])))
          /\ p_pc' = [p_pc EXCEPT ![p] = "idle"]
          /\ p_id' = [p_id EXCEPT ![p] = << >>]
    /\ last_op' = "add"
    /\ generated' = << >>
    /\ scan_ok' = TRUE
    /\ UNCHANGED pipelineOthers

\* main.py:74-89, --delete of a stored expert, confirmed.
PipelineDelete ==
    /\ \E k \in DOMAIN store : store' = DeleteWhere(store, store[k].expert_id)
    /\ last_op' = "delete"
    /\ generated' = << >>
    /\ scan_ok' = TRUE
    /\ UNCHANGED pipelineVars
    /\ UNCHANGED pipelineOthers

PipelineNext ==
    \/ PipelineGenerate
    \/ PipelineGenerateScanFails
    \/ PipelineNoData
    \/ PipelineAdd
    \/ PipelineDelete

(***************************************************************************)
(* Specifications.                                                         *)
(***************************************************************************)
\* An engine that is constructed and never run (the state of the debate
\* component in the specifications of the other components).
DebateIdle == DebateInit /\ cfg_max_turns = MaxTurns

InitFetch == FetchInit /\ DebateIdle /\ StoreInit /\ PartitionInit /\ QueryInit /\ PipelineInit

SpecFetch == InitFetch /\ [][FetchNext]_vars

InitDebate == FetchInit /\ DebateInit /\ StoreInit /\ PartitionInit /\ QueryInit /\ PipelineInit

SpecDebate == InitDebate /\ [][DebateNext]_vars

\* Runs in which every retriever and language-model call returns.  Execution
\* is single-threaded and synchronous: a node whose calls return is followed
\* by the next node, and invoke returns once END is reached.
DebateNextReturning ==
    \/ Run
    \/ NodeSpeaks
    \/ RunReturns

SpecDebateLive ==
    InitDebate /\ [][DebateNextReturning]_vars
        /\ WF_vars(NodeSpeaks) /\ WF_vars(RunReturns)

InitStore == FetchInit /\ DebateIdle /\ StoreInit /\ PartitionInit /\ QueryInit /\ PipelineInit

SpecStore == InitStore /\ [][StoreNext]_vars

InitPartition == FetchInit /\ DebateIdle /\ StoreInit /\ PartitionInit /\ QueryInit /\ PipelineInit

SpecPartition == InitPartition /\ [][PartitionNext]_vars

InitQuery == FetchInit /\ DebateIdle /\ StoreInit /\ PartitionInit /\ QueryInit /\ PipelineInit

SpecQuery == InitQuery /\ [][QueryNext]_vars

InitPipeline ==
    FetchInit /\ DebateIdle /\ StoreInit /\ PartitionInit /\ QueryInit /\ PipelineInit

SpecPipeline == InitPipeline /\ [][PipelineNext]_vars

(***************************************************************************)
(* Claims about adaptive_fetch.                                            *)
(***************************************************************************)

\* C1: for every query list, every limit >= 0 and every behaviour of the
\* source (any result lists, any exceptions), the list adaptive_fetch returns
\* has at most `limit` items.
C1_AtMostLimit == f_pc = "done" => Len(fetched) <= limit

\* C1 witness: a call returned with more unique items gathered than limit,
\* so the truncation cut the list (limit > 0).
C1_Witness ==
    /\ f_pc = "done"
    /\ limit > 0
    /\ Len(all_results) > limit
    /\ Len(fetched) = limit

\* C2: the list returned by adaptive_fetch never holds two items with the
\* same dedup key, whether the duplicates come from one query's results or
\* from different queries (the same holds of all_results while it is built).
C2_NoDuplicateKeys ==
    /\ \A j, k \in DOMAIN all_results :
          j # k => UniqueId(all_results[j]) # UniqueId(all_results[k])
    /\ \A j, k \in DOMAIN fetched :
          j # k => UniqueId(fetched[j]) # UniqueId(fetched[k])

\* C2 witness: a call returned at least two items after the source repeated a
\* key both inside one result list and across two queries.
C2_Witness ==
    /\ f_pc = "done"
    /\ dup_same
    /\ dup_cross
    /\ Len(fetched) >= 2

C13_RaiseIsSkipped ==
    /\ [][(f_pc = "loop" /\ outcomes' = Append(outcomes, -1)) =>
              /\ all_results' = all_results
              /\ seen_ids' = seen_ids
              /\ qidx + 1 < nqueries => (f_pc' = "loop" /\ qidx' = qidx + 1)
              /\ qidx + 1 >= nqueries => f_pc' = "return"]_vars
    /\ [][(f_pc = "loop" /\ f_pc' = "loop") => fetch_calls' = Append(fetch_calls, qidx)]_vars
    /\ [][f_pc = "return" =>
              (f_pc' = "done" /\ fetched' = Take(all_results, limit))]_vars

\* C13 witness: a call returned items of query 0 although query 1 raised, and
\* query 2 was still fetched after the exception.
C13_Witness ==
    /\ f_pc = "done"
    /\ Len(outcomes) = 3
    /\ outcomes[1] >= 1
    /\ outcomes[2] = -1
    /\ fetch_calls = <<0, 1, 2>>
    /\ Len(fetched) >= outcomes[1]

\* What the rest of a call depends on: the position of the loop (the query
\* fetched next, if any) and the items gathered.  Two runs that agree on it
\* make the same later client_fetch_func calls under the same source
\* behaviour and return the same list.
Continuation(n) ==
    [f_pc |-> n.f_pc,
     next_query |-> IF n.f_pc = "loop" THEN n.qidx ELSE -1,
     all_results |-> n.all_results,
     seen_ids |-> n.seen_ids]

\* C14 as stated: for every limit and every query position, the run in which
\* the query raises and the run in which it returns an empty list continue
\* alike (same later fetches, same returned list).
C14_Original ==
    f_pc = "loop" => Continuation(IterationRaises) = Continuation(IterationReturns(<< >>))

\* C14 amended: for every limit >= 1 and every query position, the run in
\* which the query raises and the run in which it returns an empty list
\* continue alike (same later fetches, same returned list).  With limit = 0
\* an empty result list ends the loop while an exception does not; the two
\* runs still gather the same items and both return the empty list.
C14_RaiseLikeEmpty ==
    /\ (f_pc = "loop" /\ limit >= 1) =>
           Continuation(IterationRaises) = Continuation(IterationReturns(<< >>))
    /\ (f_pc = "loop" /\ limit = 0) =>
           /\ IterationReturns(<< >>).f_pc = "return"
           /\ IterationRaises.f_pc = AfterIteration
           /\ IterationRaises.all_results = IterationReturns(<< >>).all_results
    /\ (f_pc = "done" /\ limit = 0) => fetched = << >>

\* C14 witness: in one call with limit >= 1 a query raised and another
\* returned no new item, items were gathered, and each time the next query
\* was fetched.
C14_Witness ==
    /\ f_pc = "done"
    /\ limit >= 1
    /\ Len(outcomes) = 3
    /\ \E j, k \in 1..2 : outcomes[j] = -1 /\ outcomes[k] = 0
    /\ fetched # << >>

(***************************************************************************)
(* Claims about the debate engine.                                         *)
(***************************************************************************)

\* The display names of the speakers of a transcript, in order.
Speakers(msgs) == [k \in DOMAIN msgs |-> msgs[k].name]

OrderA == <<"Optimist", "Skeptic", "Moderator">>
OrderB == <<"Optimist", "Competitor", "Skeptic", "Regulator", "Moderator">>

\* The model's cap on the transcript is never the reason a node cannot run.
CapNotReached == Len(state.messages) < MaxMessages

\* C4: a mode A run speaks in the order Optimist, Skeptic, Moderator and has
\* reached the end marker exactly when all 3 messages are there; the state
\* run() returns has exactly these 3 messages.
C4_ModeAThreeTurns ==
    (graph = "a" /\ d_pc # "idle") =>
        /\ Speakers(state.messages) = Take(OrderA, Len(state.messages))
        /\ (d_pc \in {"END", "done"}) <=> (Len(state.messages) = 3)
        /\ d_pc = "done" => Speakers(final_state[1].messages) = OrderA

\* C4 witness: a completed mode A run.
C4_Witness ==
    /\ graph = "a"
    /\ d_pc = "done"
    /\ Len(final_state[1].messages) = 3

\* C5: a mode B run speaks in the order Optimist, Competitor, Skeptic,
\* Regulator, Moderator, and has reached the end marker exactly when all 5
\* messages are there; the state run() returns has exactly these 5 messages.
C5_ModeBFiveTurns ==
    (graph = "b" /\ d_pc # "idle") =>
        /\ Speakers(state.messages) = Take(OrderB, Len(state.messages))
        /\ (d_pc \in {"END", "done"}) <=> (Len(state.messages) = 5)
        /\ d_pc = "done" => Speakers(final_state[1].messages) = OrderB

\* C5 witness: a completed mode B run.
C5_Witness ==
    /\ graph = "b"
    /\ d_pc = "done"
    /\ Len(final_state[1].messages) = 5

\* C6 as stated: for every max_turns in effect, a completed mode C run has
\* between 3 and 2 * max_turns + 1 messages.
C6_Original ==
    (graph = "c" /\ d_pc = "done") =>
        /\ 3 <= Len(final_state[1].messages)
        /\ Len(final_state[1].messages) <= 2 * max_turns + 1

\* C6 amended: a completed mode C run has exactly 2 * max_turns + 1 messages
\* (between 3 and 2 * max_turns + 1) when the max_turns in effect is >= 1, and
\* exactly 2 messages when it is <= 0 (possible only as the configured value).
C6_ModeCMessageCount ==
    (graph = "c" /\ d_pc = "done") =>
        /\ max_turns >= 1 => Len(final_state[1].messages) = 2 * max_turns + 1
        /\ max_turns >= 1 => 3 <= Len(final_state[1].messages)
        /\ max_turns <= 0 => Len(final_state[1].messages) = 2

\* C6 witness: a completed mode C run under a per-run override that differs
\* from the configured default and lets the Optimist/Skeptic cycle repeat.
C6_Witness ==
    /\ graph = "c"
    /\ d_pc = "done"
    /\ max_turns >= 2
    /\ max_turns # cfg_max_turns
    /\ Len(final_state[1].messages) = 2 * max_turns + 1

\* C7: when every language-model call returns, a mode C run reaches the end
\* marker; the end marker is entered only from the Moderator's turn, and
\* turn_count grows on every node visit.
C7_ModeCTerminates ==
    /\ (graph = "c" /\ d_pc \in Nodes) ~> (d_pc = "END")
    /\ [][(d_pc' = "END" /\ d_pc # "END") => d_pc = "moderator"]_vars
    /\ [][(d_pc \in Nodes /\ d_pc' # "raised") => state'.turns > state.turns]_vars

\* C7 witness: a mode C run reached the end marker after the cycle went
\* round at least twice.
C7_Witness ==
    /\ graph = "c"
    /\ d_pc = "END"
    /\ Len(state.messages) >= 5

\* C8: in every DebateState turn_count equals the number of messages; a run
\* starts with turn_count = 0 and an empty transcript.
C8_TurnsEqualMessages ==
    /\ state.turns = Len(state.messages)
    /\ final_state # << >> => final_state[1].turns = Len(final_state[1].messages)
    /\ (d_pc = "optimist" /\ state.current_speaker = "System") =>
            (state.turns = 0 /\ state.messages = << >>)

\* C8 witness: a completed run whose last invocation was the Moderator's,
\* counted like the others.
C8_Witness ==
    /\ d_pc = "done"
    /\ graph = "b"
    /\ state.current_speaker = "P_MOD"
    /\ state.turns = 5

\* C9 as stated: when a language-model call fails during turn k >= 2, the
\* failure aborts the run and the messages of the k-1 completed turns remain
\* available to the caller of run().
C9_PartialTranscriptAvailable ==
    (d_pc = "raised" /\ Len(state.messages) >= 1) =>
        /\ final_state # << >>
        /\ final_state[1].messages = state.messages

(***************************************************************************)
(* Claims about the vector store.                                          *)
(***************************************************************************)

\* The expert ids that tag at least one stored document.
StoredIds == { store[k].expert_id : k \in DOMAIN store }

\* The stored ids of the form expert_<decimal digits>.
PatternIds ==
    { id \in StoredIds :
        /\ StartsWith(id, Prefix)
        /\ Suffix(id) # << >>
        /\ \A k \in DOMAIN Suffix(id) : Suffix(id)[k] \in DecimalChars }

\* M: the largest numeric suffix among the pattern ids, 0 when there is none.
LargestSuffix ==
    LET nums == { ParseInt(Suffix(id)) : id \in PatternIds }
    IN  IF nums = {} THEN 0 ELSE CHOOSE m \in nums : \A n \in nums : n <= m

\* C10: when the scan of the store returns, generate_next_expert_id returns
\* 'expert_<M+1>', M the largest numeric suffix among the stored ids of the
\* form expert_<digits> and 0 when there is none: expert_4 on {expert_1,
\* expert_3}, expert_1 on an empty store, and ids that do not match the
\* pattern are ignored.
C10_NextExpertId ==
    (last_op = "generate" /\ scan_ok) =>
        /\ generated = Prefix \o Str(LargestSuffix + 1)
        /\ StoredIds = {} => generated = <<"e", "x", "p", "e", "r", "t", "_", "1">>
        /\ PatternIds = {ExpertId(<<"1">>), ExpertId(<<"3">>)}
               => generated = <<"e", "x", "p", "e", "r", "t", "_", "4">>
        /\ PatternIds = {ExpertId(<<"9">>), ExpertId(<<"0", "2">>)}
               => generated = <<"e", "x", "p", "e", "r", "t", "_", "1", "0">>
        /\ PatternIds = {} => generated = <<"e", "x", "p", "e", "r", "t", "_", "1">>

\* C10 witness: the scan of a store holding expert_3, expert_1 and the
\* non-matching exp_7 returned expert_4.
C10_Witness ==
    /\ last_op = "generate"
    /\ scan_ok
    /\ StoredIds = {ExpertId(<<"1">>), ExpertId(<<"3">>), <<"e", "x", "p", "_", "7">>}
    /\ store[1].expert_id = ExpertId(<<"3">>)
    /\ generated = <<"e", "x", "p", "e", "r", "t", "_", "4">>

\* C11: right after a non-empty add(documents, E, topic) exists(E) is true
\* and every added document passes the filter of retrieve(E, ...): each is
\* returned by some retrieval, and by every retrieval whose k covers the
\* partition.  Right after a delete(E) in which the collection did not raise,
\* no document tagged E is left, every retrieve(E, ...) is empty and exists(E)
\* is false.  exists and retrieve only read, and answer from the stored tags.
C11_PartitionRoundTrip ==
    /\ []((last_op = "add" /\ added # {}) =>
             /\ ExpertExists(store, op_id)
             /\ added \subseteq Tagged(store, op_id)
             /\ \A k \in 1..MaxK :
                   /\ \A i \in added : \E S \in Retrievals(store, op_id, k) : i \in S
                   /\ k >= Cardinality(Tagged(store, op_id)) =>
                          \A S \in Retrievals(store, op_id, k) : added \subseteq S)
    /\ []((last_op = "delete" /\ ~store_raised) =>
             /\ ~ExpertExists(store, op_id)
             /\ \A i \in DOMAIN store : store[i].expert_id # op_id
             /\ \A k \in 1..MaxK : Retrievals(store, op_id, k) = {{}})
    /\ [][(last_op' = "exists" /\ op_result' # "raised") =>
              /\ store' = store
              /\ (op_result' = "true") <=>
                     (\E i \in DOMAIN store : store[i].expert_id = op_id')]_vars
    /\ [][last_op' = "retrieve" =>
              /\ store' = store
              /\ \A i \in hits' : store[i].expert_id = op_id'
              /\ (last_op = "delete" /\ ~store_raised /\ op_id' = op_id) => hits' = {}
              /\ (last_op = "add" /\ op_id' = op_id
                     /\ op_k' >= Cardinality(Tagged(store, op_id))) =>
                        added \subseteq hits']_vars

\* C11 witness: a partition that had been added was deleted (delete returned
\* True) while a document of another partition stays stored.
C11_Witness ==
    /\ last_op = "delete"
    /\ op_result = "true"
    /\ ~store_raised
    /\ Len(store) = 1
    /\ store[1].expert_id # op_id

\* C12 as stated: when the collection raises while exists(expert_id) or
\* delete(expert_id) is served, the caller gets a boolean or None, never an
\* exception.
C12_StoreErrorIsValue ==
    (store_raised /\ last_op \in {"exists", "delete"}) =>
        op_result \in {"true", "false", "none"}

(***************************************************************************)
(* Claims about generate_search_queries.                                   *)
(***************************************************************************)

\* The positions of the queries a strategy appended.
KindPositions(kind) == { k \in DOMAIN query_kinds : query_kinds[k] = kind }

\* The responses of the model calls made for one helper, in order.
Responses(call) ==
    LET made == SelectSeq(llm_calls, LAMBDA c : c.call = call)
    IN  [k \in DOMAIN made |-> made[k].response]

\* The phrases have been extracted (keywords is assigned).
Extracted == q_pc \in {"synonyms", "rank", "return", "done"}

\* The number of words and of core words the topic was built from.
BuiltFrom(core, stopn) == q_topic = Join(TopicWords(core, stopn), <<" ">>)

\* C15: for every topic with fewer than 3 extracted phrases, no query comes
\* from the N-1 strategy, in the list being built and in the returned list,
\* and the ranking model call is never made.
C15_NoRelaxationBelowThree ==
    (Extracted /\ Len(keywords) < 3) =>
        /\ KindPositions("n-1") = {}
        /\ Responses("ranking") = << >>
        /\ q_pc \in {"synonyms", "return", "done"}
        /\ q_pc = "done" =>
              /\ search_queries = queries
              /\ Len(search_queries) <= 5
              /\ \A k \in DOMAIN search_queries :
                    query_kinds[k] \in {"expansion", "and", "synonym"}

\* C15 witness: a call returned for a topic with exactly 2 extracted phrases
\* and synonyms.
C15_Witness ==
    /\ q_pc = "done"
    /\ Len(keywords) = 2
    /\ KindPositions("synonym") # {}
    /\ Responses("ranking") = << >>

\* C16: for every topic with 4 or more core words (words left after the stop
\* words are removed), no query comes from the synonym-expansion strategy and
\* the expansion model call is not made.
C16_NoExpansionFromFourCoreWords ==
    \A core \in 0..MaxCoreWords, stopn \in {0, 1, MaxStopWords} :
        (q_pc # "idle" /\ BuiltFrom(core, stopn) /\ core >= 4) =>
            /\ CountCoreWords(q_topic) >= 4
            /\ KindPositions("expansion") = {}
            /\ Responses("expansion") = << >>
            /\ q_pc # "expand"

\* C16 witness: a call returned for a topic of 4 core words and a stop word;
\* the other strategies ran.
C16_Witness ==
    /\ q_pc = "done"
    /\ BuiltFrom(4, 1)
    /\ KindPositions("synonym") # {}
    /\ KindPositions("n-1") # {}

\* C17: for every topic and every outcome of the model calls, failures
\* included, the returned list is non-empty and holds the exact-AND query
\* (every extracted phrase quoted, joined with AND, the empty string when no
\* phrase was extracted) exactly once; at most one query precedes it, and
\* only a synonym-expansion query; every synonym query and every N-1 query
\* follows it.  The call always reaches its return: no step of it raises.
C17_ExactAndAlwaysPresent ==
    /\ q_pc \in {"idle", "expand", "extract", "synonyms", "rank", "return", "done"}
    /\ q_pc = "done" =>
          /\ search_queries # << >>
          /\ Len(query_kinds) = Len(search_queries)
          /\ \E p \in DOMAIN search_queries :
                /\ KindPositions("and") = {p}
                /\ search_queries[p] =
                       Join([k \in DOMAIN keywords |-> <<"\"">> \o keywords[k] \o <<"\"">>],
                            <<" ", "A", "N", "D", " ">>)
                /\ p <= 2
                /\ \A k \in 1..(p - 1) : query_kinds[k] = "expansion"
                /\ \A k \in KindPositions("synonym") \cup KindPositions("n-1") : k > p
                /\ \A k \in KindPositions("expansion") : k < p

\* C17 witness: a call returned a list with all four kinds of query although
\* the ranking call raised.
C17_Witness ==
    /\ q_pc = "done"
    /\ KindPositions("expansion") # {}
    /\ KindPositions("synonym") # {}
    /\ KindPositions("n-1") # {}
    /\ Responses("ranking") = <<Raises>>

\* The case of C18: fewer than 4 core words, fewer than 10 words, 2 extracted
\* phrases, and the call has returned.
C18_Case ==
    /\ q_pc = "done"
    /\ \E core \in 0..3, stopn \in {0, 1, MaxStopWords} :
          BuiltFrom(core, stopn) /\ core + stopn < 10
    /\ Len(keywords) = 2

\* C18 as stated: in that case the list holds the synonym-expansion query and
\* the exact-AND query, no N-1 query, and has between 2 and 5 entries.
C18_Original ==
    C18_Case =>
        /\ KindPositions("expansion") # {}
        /\ KindPositions("and") # {}
        /\ KindPositions("n-1") = {}
        /\ 2 <= Len(search_queries)
        /\ Len(search_queries) <= 5

\* C18 amended: in that case the expansion call is made; the list holds the
\* exact-AND query and no N-1 query; it holds the synonym-expansion query
\* when the expansion call returned text with a character other than white
\* space and quotes, and not when the call raised or returned nothing; it has
\* between 1 and 5 entries, at least 2 when the expansion query is there.
C18_ShortTopicQueries ==
    C18_Case =>
        /\ Len(Responses("expansion")) = 1
        /\ KindPositions("and") # {}
        /\ KindPositions("n-1") = {}
        /\ LET r == Responses("expansion")[1]
           IN  /\ (r.raised \/ r.content = << >>) => KindPositions("expansion") = {}
               /\ (~r.raised /\ \E k \in DOMAIN r.content :
                                   r.content[k] \notin Whitespace \cup {"\"", "'"})
                      => KindPositions("expansion") = {1}
        /\ 1 <= Len(search_queries)
        /\ Len(search_queries) <= 5
        /\ KindPositions("expansion") # {} => 2 <= Len(search_queries)

\* C18 witness: in that case a call returned 5 queries: the expansion query,
\* the exact-AND query and 3 synonym queries.
C18_Witness ==
    /\ C18_Case
    /\ query_kinds = <<"expansion", "and", "synonym", "synonym", "synonym">>
    /\ Len(search_queries) = 5

\* s without its i-th element.
WithoutPosition(s, i) == SubSeq(s, 1, i - 1) \o SubSeq(s, i + 1, Len(s))

\* The ranking response names no subset: the call raised, or no run of
\* digits in its text is a number in 0..n-1.
NoValidIndex(response, n) ==
    \/ response.raised
    \/ \A k \in DOMAIN DigitRuns(response.content, << >>, << >>) :
          ParseInt(DigitRuns(response.content, << >>, << >>)[k]) \notin 0..(n - 1)

\* C19: when the ranking model call fails or its text holds no index in
\* 0..len(combos)-1, the N-1 queries are those of the first 2 subsets in
\* enumeration order: the phrases without the last one, then the phrases
\* without the last but one.
C19_RankingFallback ==
    (q_pc \in {"return", "done"} /\ Responses("ranking") # << >>
         /\ NoValidIndex(Responses("ranking")[1], Len(keywords))) =>
        LET first == Len(query_kinds) - 1
        IN  /\ KindPositions("n-1") = {first, first + 1}
            /\ queries[first] = AndQuery(WithoutPosition(keywords, Len(keywords)))
            /\ queries[first + 1] = AndQuery(WithoutPosition(keywords, Len(keywords) - 1))

\* C19 witness: the ranking call returned text whose numbers are all out of
\* range for the 5 subsets of 5 phrases, and the call returned the fallback.
C19_Witness ==
    /\ q_pc = "done"
    /\ Len(keywords) = 5
    /\ ~Responses("ranking")[1].raised
    /\ DigitRuns(Responses("ranking")[1].content, << >>, << >>) # << >>
    /\ NoValidIndex(Responses("ranking")[1], 5)
    /\ Cardinality(KindPositions("n-1")) = 2

(***************************************************************************)
(* Claims about the expert ids of successive runs.                         *)
(***************************************************************************)

\* The number of an id of the form expert_<digits>.
IdNumber(id) == ParseInt(Suffix(id))

\* The numbers of the stored ids of the form expert_<digits>.
StoredNumbers == { IdNumber(id) : id \in PatternIds }

\* C20 as stated: across creations and deletions of partitions, the id a
\* successful scan returns is one greater than the largest numeric suffix
\* then stored, and greater than every id a partition was created under
\* earlier.
C20_Original ==
    (last_op = "generate" /\ scan_ok) =>
        /\ generated = Prefix \o Str(LargestSuffix + 1)
        /\ IdNumber(generated) > created_max

\* C20 amended: the id returned is one greater than the largest numeric
\* suffix the scan observes (0 when it observes no id, as after a failed
\* scan).  When the scan returns, the id is greater than every id then
\* stored, and greater than every id a partition was created under earlier
\* as long as the partition with the largest such id is still stored; after
\* that partition is deleted an id given out before is returned again.
C20_OneAboveObserved ==
    last_op = "generate" =>
        /\ scan_ok => generated = Prefix \o Str(LargestSuffix + 1)
        /\ ~scan_ok => generated = Prefix \o Str(0 + 1)
        /\ scan_ok => \A n \in StoredNumbers : IdNumber(generated) > n
        /\ (scan_ok /\ created_max \in StoredNumbers) => IdNumber(generated) > created_max

\* C20 witness: partitions expert_1 and expert_2 were created, expert_2 was
\* deleted, and the next run was assigned expert_2 again.
C20_Witness ==
    /\ last_op = "generate"
    /\ scan_ok
    /\ created_max = 2
    /\ StoredIds = {ExpertId(<<"1">>)}
    /\ generated = ExpertId(<<"2">>)
    /\ \E p \in Pipelines : p_pc[p] = "acquire" /\ p_id[p] = generated

(***************************************************************************)
(* Claims about the keyword extractor.                                     *)
(***************************************************************************)

\* The characters of str that are in chars.
Occurs(str, chars) == \E k \in DOMAIN str : str[k] \in chars

\* C21 as stated: for every topic and every outcome of the model call the
\* extractor returns at most 5 phrases, each longer than 2 characters and
\* free of quote characters, the fail-soft result [topic] included.
C21_Original ==
    Extracted =>
        /\ Len(keywords) <= 5
        /\ \A k \in DOMAIN keywords :
              /\ Len(keywords[k]) > 2
              /\ ~Occurs(keywords[k], {"\"", "'"})

\* C21 amended: the extractor never raises.  When the model call returns,
\* the result has at most 5 phrases, in the order of the text, each longer
\* than 2 characters, without white space at its ends and free of double
\* quotes and square brackets (single quotes are kept).  When the call
\* raises, the result is the one-element list holding the raw topic,
\* whatever its length and characters.
C21_KeywordsContract ==
    Extracted =>
        /\ Len(Responses("keywords")) = 1
        /\ Responses("keywords")[1].raised => keywords = <<q_topic>>
        /\ ~Responses("keywords")[1].raised =>
              /\ Len(keywords) <= 5
              /\ \A k \in DOMAIN keywords :
                    /\ Len(keywords[k]) > 2
                    /\ ~Occurs(keywords[k], {"\"", "[", "]"})
                    /\ keywords[k][1] \notin Whitespace
                    /\ keywords[k][Len(keywords[k])] \notin Whitespace
              /\ \A j, k \in DOMAIN keywords :
                    (j < k /\ keywords[j] # keywords[k]) =>
                        \E a, b \in DOMAIN Responses("keywords")[1].content :
                            /\ a < b
                            /\ Responses("keywords")[1].content[a] = keywords[j][1]
                            /\ Responses("keywords")[1].content[b] = keywords[k][1]

\* C21 witness: the model returned 6 phrases and the call returned with the
\* first 5.
C21_Witness ==
    /\ q_pc = "done"
    /\ ~Responses("keywords")[1].raised
    /\ Len(Split(Responses("keywords")[1].content, ",")) = 6
    /\ Len(keywords) = 5

(***************************************************************************)
(* Claims about the consensus loop and about one run of the engine.        *)
(***************************************************************************)

\* The one of the two looping personas that is not `node`.
OtherPersona(node) == IF node = "optimist" THEN "skeptic" ELSE "optimist"

\* A transcript's speakers up to, and without, a closing Moderator.
BeforeModerator(names) ==
    IF names # << >> /\ names[Len(names)] = "Moderator"
    THEN Take(names, Len(names) - 1)
    ELSE names

\* How many messages of a transcript carry the display name n.
Spoken(names, n) == Cardinality({ k \in DOMAIN names : names[k] = n })

\* C22: in mode C, after each Optimist or Skeptic turn that returns, control
\* goes to the Moderator if and only if turn_count >= 2 * max_turns, and
\* otherwise to the other of the two personas; so the transcript before the
\* Moderator is Optimist, Skeptic, Optimist, ... starting with Optimist, and
\* no persona speaks twice in a row.
C22_RouterAlternates ==
    /\ [][ (graph = "c" /\ d_pc \in {"optimist", "skeptic"} /\ d_pc' # "raised") =>
              /\ (d_pc' = "moderator") <=> (state'.turns >= 2 * max_turns)
              /\ (d_pc' # "moderator") => (d_pc' = OtherPersona(d_pc)) ]_vars
    /\ [](graph = "c" =>
            LET names == Speakers(state.messages)
            IN  /\ \A k \in DOMAIN BeforeModerator(names) :
                      names[k] = IF k % 2 = 1 THEN "Optimist" ELSE "Skeptic"
                /\ \A k \in DOMAIN names : k > 1 => names[k] # names[k - 1])

\* C22 witness: a mode C run in which the router has sent control to the other
\* persona three times and now sends it to the Moderator.
C22_Witness ==
    /\ graph = "c"
    /\ d_pc = "moderator"
    /\ state.current_speaker = "P_SKEP"
    /\ Speakers(state.messages) = <<"Optimist", "Skeptic", "Optimist", "Skeptic">>

\* C23 as stated: in every completed mode C run with max_turns = m in effect
\* the Optimist speaks exactly m times and the Skeptic exactly m times before
\* the Moderator's single closing turn.
C23_Original ==
    (graph = "c" /\ d_pc = "done") =>
        LET names == Speakers(final_state[1].messages)
        IN  /\ Spoken(names, "Optimist") = max_turns
            /\ Spoken(names, "Skeptic") = max_turns
            /\ Spoken(names, "Moderator") = 1
            /\ names[Len(names)] = "Moderator"

\* C23 amended: the same for every max_turns >= 1 in effect; when the
\* max_turns in effect is <= 0 (possible only as the configured value) the
\* Optimist speaks once and the Skeptic never, before the Moderator's single
\* closing turn.
C23_PerPersonaBudget ==
    (graph = "c" /\ d_pc = "done") =>
        LET names == Speakers(final_state[1].messages)
        IN  /\ max_turns >= 1 => Spoken(names, "Optimist") = max_turns
            /\ max_turns >= 1 => Spoken(names, "Skeptic") = max_turns
            /\ max_turns <= 0 => Spoken(names, "Optimist") = 1
            /\ max_turns <= 0 => Spoken(names, "Skeptic") = 0
            /\ Spoken(names, "Moderator") = 1
            /\ names[Len(names)] = "Moderator"

\* C23 witness: a completed mode C run under an override of at least 2 in
\* which each of the two personas has used its whole budget.
C23_Witness ==
    /\ graph = "c"
    /\ d_pc = "done"
    /\ run_turns # << >>
    /\ max_turns >= 2
    /\ Spoken(Speakers(final_state[1].messages), "Skeptic") = max_turns
    /\ Spoken(Speakers(final_state[1].messages), "Optimist") = max_turns

\* The display name each node tags its message with.
DisplayName ==
    [optimist |-> "Optimist", skeptic |-> "Skeptic", competitor |-> "Competitor",
     regulator |-> "Regulator", moderator |-> "Moderator"]

\* C25: within one run the transcript is append-only and the run's identity
\* is fixed: a persona turn appends exactly one message tagged with that
\* persona's display name and leaves every earlier message unchanged and in
\* place; no step of the run (a turn, a failing turn, the return of the final
\* state) changes topic, expert_id or mode or touches an earlier message.
C25_TranscriptAppendOnly ==
    [][ (d_pc \in Nodes \cup {"END"}) =>
           /\ state'.topic = state.topic
           /\ state'.expert_id = state.expert_id
           /\ state'.mode = state.mode
           /\ (d_pc \in Nodes /\ d_pc' # "raised") =>
                 /\ Len(state'.messages) = Len(state.messages) + 1
                 /\ \A k \in DOMAIN state.messages : state'.messages[k] = state.messages[k]
                 /\ state'.messages[Len(state'.messages)].name = DisplayName[d_pc]
           /\ (d_pc = "END" \/ d_pc' = "raised") => state'.messages = state.messages
           /\ d_pc = "END" => final_state' = <<state>> ]_vars

\* C25 witness: a completed mode B run on topic t2 whose five messages do not
\* all have the same content.
C25_Witness ==
    /\ graph = "b"
    /\ d_pc = "done"
    /\ final_state[1].topic = "t2"
    /\ Len(final_state[1].messages) = 5
    /\ final_state[1].messages[1].content # final_state[1].messages[5].content

\* C28 as stated: a run() with no override (turns is None or <= 0) uses the
\* configured default max_turns_per_persona, whatever overrides earlier runs
\* on the same engine used.
C28_OverrideIsPerRun ==
    (d_pc # "idle" /\ (run_turns = << >> \/ run_turns[1] <= 0)) =>
        max_turns = cfg_max_turns

(***************************************************************************)
(* Claims about the early-stop rules of adaptive_fetch.                    *)
(***************************************************************************)

\* The number of unique items collected once the first k queries are done
\* (a query that raised added none).
RECURSIVE Cumulative(_)
Cumulative(k) ==
    IF k = 0 THEN 0
    ELSE Cumulative(k - 1) + (IF outcomes[k] >= 0 THEN outcomes[k] ELSE 0)

\* Whether the loop went on to the next query after its k-th query (index
\* k - 1), for a k that is not the last query of the call.
WentOn(k) == Len(outcomes) > k \/ (Len(outcomes) = k /\ f_pc = "loop")

\* The queries of the present call that are done, have index >= 1 and are
\* not the last of the list.
LaterQueries == { k \in 2..Len(outcomes) : k < nqueries }

\* C24 as stated: after any query at index >= 1 adaptive_fetch goes on to the
\* next query whenever the cumulative number of unique items is still below
\* limit, however many new items that query added, and stops as soon as the
\* cumulative number reaches limit.
C24_Original ==
    \A k \in LaterQueries : WentOn(k) <=> (Cumulative(k) < limit)

\* C24 amended: after a query at index >= 1 whose fetch returns, the loop
\* goes on exactly when the cumulative number of unique items is below limit,
\* however many new items that query added; after a query whose fetch raises
\* it always goes on.  After the query at index 0 returns it goes on exactly
\* when neither rule (a) nor rule (b) applies.
C24_RuleAFirstQueryOnly ==
    /\ \A k \in LaterQueries :
          /\ outcomes[k] >= 0 => (WentOn(k) <=> (Cumulative(k) < limit))
          /\ outcomes[k] < 0 => WentOn(k)
    /\ (Len(outcomes) >= 1 /\ nqueries > 1 /\ outcomes[1] >= 0) =>
          (WentOn(1) <=> (2 * outcomes[1] < limit /\ Cumulative(1) < limit))

\* C24 witness: the query at index 1 added at least half of limit, the
\* cumulative number stayed below limit, and the third query was fetched.
C24_Witness ==
    /\ limit >= 1
    /\ Len(outcomes) = 3
    /\ outcomes[2] >= 1
    /\ 2 * outcomes[2] >= limit
    /\ Cumulative(2) < limit
    /\ fetch_calls = <<0, 1, 2>>

(***************************************************************************)
(* Claims about the isolation of partitions.                               *)
(***************************************************************************)

\* The documents of a collection that carry the tag expert_id, in order.
RECURSIVE DocsOf(_, _)
DocsOf(docs, expert_id) ==
    IF docs = << >> THEN << >>
    ELSE (IF Head(docs).expert_id = expert_id THEN <<Head(docs)>> ELSE << >>)
             \o DocsOf(Tail(docs), expert_id)

\* C26: a retrieval for expert id E returns only documents tagged E, and
\* every operation (add under E, delete of E, retrieval, existence test,
\* failed or not) leaves the documents of every expert id other than E
\* unchanged, in any sequence of operations over several expert ids.
C26_PartitionIsolation ==
    /\ [](last_op = "retrieve" => \A k \in hits : store[k].expert_id = op_id)
    /\ [][ \A id \in PartitionIds :
              id # op_id' => DocsOf(store', id) = DocsOf(store, id) ]_vars

\* C26 witness: a retrieval with k = 2 returned one document, the only one
\* of its expert id, while the store held two documents of another id.
C26_Witness ==
    /\ last_op = "retrieve"
    /\ op_k = 2
    /\ Cardinality(hits) = 1
    /\ \E id \in PartitionIds : id # op_id /\ Len(DocsOf(store, id)) = 2

(***************************************************************************)
(* Claims about the number of N-1 relaxation queries.                      *)
(***************************************************************************)

\* The relaxation step of a call with at least 3 phrases is done.
Relaxed == q_pc \in {"return", "done"} /\ Len(keywords) >= 3

\* The N-1 queries of the list, in order.
RelaxationQueries ==
    SelectSeq([k \in DOMAIN queries |-> IF query_kinds[k] = "n-1" THEN <<queries[k]>> ELSE << >>],
              LAMBDA q : q # << >>)

\* The indices 0..n-1 read from a ranking text, in the order read, repeats kept.
ValidIndices(content, n) ==
    LET runs == DigitRuns(content, << >>, << >>)
    IN  SelectSeq([k \in DOMAIN runs |-> ParseInt(runs[k])], LAMBDA idx : idx \in 0..(n - 1))

\* C29 as stated: whenever the phrase count N is >= 3, exactly 2 N-1 queries
\* are emitted and they are two different size-(N-1) subsets of the phrases,
\* whatever index list the ranking model returns.
C29_Original ==
    Relaxed =>
        /\ Len(RelaxationQueries) = 2
        /\ RelaxationQueries[1] # RelaxationQueries[2]
        /\ \A k \in DOMAIN RelaxationQueries :
              \E i \in DOMAIN keywords :
                  RelaxationQueries[k] = <<AndQuery(WithoutPosition(keywords, i))>>

\* C29 amended: whenever N >= 3, 1 or 2 N-1 queries are emitted, each a
\* size-(N-1) subset of the phrases.  When the ranking text holds valid
\* indices, the queries are the subsets at the first two valid indices in the
\* order read, repeats kept: one query for one valid index, twice the same
\* query for a repeated index.  When it holds none, or the call fails, they
\* are the first two subsets in enumeration order.
C29_RelaxationQueries ==
    Relaxed =>
        LET N == Len(keywords)
            response == Responses("ranking")[1]
            valid == IF response.raised THEN << >> ELSE ValidIndices(response.content, N)
            chosen == IF valid = << >> THEN <<0, 1>> ELSE Take(valid, 2)
        IN  /\ Len(Responses("ranking")) = 1
            /\ Len(RelaxationQueries) \in {1, 2}
            /\ Len(RelaxationQueries) = Len(chosen)
            /\ \A k \in DOMAIN chosen :
                  RelaxationQueries[k] = <<AndQuery(WithoutPosition(keywords, N - chosen[k]))>>

\* C29 witness: 3 phrases, the ranking text repeats one valid index, and the
\* call returned with twice the same N-1 query.
C29_Witness ==
    /\ q_pc = "done"
    /\ Len(keywords) = 3
    /\ ~Responses("ranking")[1].raised
    /\ ValidIndices(Responses("ranking")[1].content, 3) = <<1, 1>>
    /\ Len(RelaxationQueries) = 2
    /\ RelaxationQueries[1] = RelaxationQueries[2]

(***************************************************************************)
(* Claims about new expert ids and existing partitions.                    *)
(***************************************************************************)

\* C27 as stated: generate_next_expert_id never returns an expert id that
\* already tags documents in the store, in every reachable store state and
\* also when the scan of the store's metadata fails.
C27_FreshExpertId ==
    last_op = "generate" => generated \notin StoredIds

\* C30 as stated: two new-topic runs whose steps interleave (each run:
\* generate_next_expert_id, then fetch, then add_expert_knowledge) never hold
\* the same expert_id for the documents they are about to write, and no
\* expert_id tags documents of two topics.
C30_RunsUseDistinctIds ==
    /\ \A p, q \in Pipelines :
          (p # q /\ p_pc[p] = "acquire" /\ p_pc[q] = "acquire") => p_id[p] # p_id[q]
    /\ \A j, k \in DOMAIN store :
          store[j].expert_id = store[k].expert_id => store[j].topic = store[k].topic

=============================================================================
